---------------------------- MODULE Spec2Model ----------------------------
(***************************************************************************)
(* generate_spectra (src/spectral_generator.py): the in-silico generator   *)
(* of two-class spectra, as a state machine with one step per statement.   *)
(*                                                                         *)
(* Numbers.  The code computes in float64; the model computes in the       *)
(* exact numbers a + c/sqrt(r) (a, c integers, r >= 1), which is the       *)
(* smallest set closed under what the function does to integer inputs     *)
(* once a standard deviation is 1/sqrt(m).  Rounding is not modelled.      *)
(*                                                                         *)
(* numpy.  Arrays carry their shape, so that a (0, p) array is not a (0,   *)
(* q) array; tile, matmul, "+" (broadcasting), vstack, hstack and          *)
(* RandomState.normal are modelled by what numpy does, including the       *)
(* ValueError each raises.  The deviates of a RandomState are a fixed      *)
(* stream determined by the seed; Gauss(seed, k) stands for its k-th       *)
(* standard normal deviate.                                                *)
(***************************************************************************)
EXTENDS Integers, Sequences, FiniteSets, TLC

(* ------------------------------- bounds -------------------------------- *)
\* largest number of calibration vectors (rows of B_neg, B_pos)
MaxM == 2
\* largest number of columns of a calibration matrix, length of a mean
MaxP == 3
\* largest requested number of samples per class
MaxN == 2
\* seeds are 0..MaxSeed
MaxSeed == 1

\* Two invocations may be in progress at once (two threads of the caller).
Calls == {"a", "b"}

VARIABLES
  pc,             \* per call: the statement it is about to run
  call,           \* per call: the arguments as the caller passed them
  B_neg, B_pos, mu_neg, mu_pos, epsilon_std,  \* the caller's array objects
  n_neg, n_pos, random_state,
  beta_std_neg, beta_std_pos,  \* parameters, rebound at lines 48 and 50
  rand,           \* per call: which generator the name rand is bound to
  own,            \* per call: state of the RandomState the call created
  global_rand,    \* state of numpy's process-wide generator (np.random)
  m_neg, m_pos, BETA_neg, BETA_pos, X_neg_gen, X_pos_gen, X_gen, y_gen,
  draws,          \* per call: the draws made so far, in order
  result,         \* per call: what the call returned
  first           \* the record of one completed call, kept for comparison

argVars == <<B_neg, B_pos, mu_neg, mu_pos, epsilon_std, n_neg, n_pos,
             random_state>>
stdVars == <<beta_std_neg, beta_std_pos>>
genVars == <<rand, own, global_rand, draws>>
locVars == <<m_neg, m_pos, BETA_neg, BETA_pos, X_neg_gen, X_pos_gen, X_gen,
             y_gen>>
vars == <<pc, call, argVars, stdVars, genVars, locVars, result, first>>

(* ------------------------------ numbers -------------------------------- *)
\* a + c/sqrt(r), kept in the form c = 0 => r = 1 and r = 1 => c = 0
Norm(x) ==
  IF x.c = 0 THEN [a |-> x.a, c |-> 0, r |-> 1]
  ELSE IF x.r = 1 THEN [a |-> x.a + x.c, c |-> 0, r |-> 1]
  ELSE x

Num(k) == [a |-> k, c |-> 0, r |-> 1]

\* x + y; the irrational parts met in one call share their radicand
Add(x, y) ==
  Norm([a |-> x.a + y.a, c |-> x.c + y.c,
        r |-> IF x.c # 0 THEN x.r ELSE y.r])

\* x * k for an integer k
Scale(x, k) == Norm([a |-> x.a * k, c |-> x.c * k, r |-> x.r])

\* x * y; in every product the function forms one factor is an integer
Mul(x, y) == IF y.c = 0 THEN Scale(x, y.a) ELSE Scale(y, x.a)

\* x < 0, for the numbers a standard deviation can be (a = 0 or c = 0)
Negative(x) == IF x.c = 0 THEN x.a < 0 ELSE x.c < 0

\* 1/np.sqrt(m)
InvSqrt(m) == Norm([a |-> 0, c |-> 1, r |-> m])

(* ------------------------------- arrays -------------------------------- *)
\* A 2-D array is its shape (rows, cols) and its entries at[i][j]; a 1-D
\* array is its shape (len,) and its entries at[i].
Empty2 == [rows |-> 0, cols |-> 0, at |-> <<>>]
Empty1 == [len |-> 0, at |-> <<>>]

RECURSIVE SumTo(_, _)
\* f[1] + ... + f[n]
SumTo(f, n) == IF n = 0 THEN Num(0) ELSE Add(SumTo(f, n - 1), f[n])

\* A.reshape(cols, rows): the same entries, row by row, not transposed
Reshape(A) ==
  [rows |-> A.cols, cols |-> A.rows,
   at |-> [i \in 1..A.cols |-> [j \in 1..A.rows |->
             LET flat == (i - 1) * A.rows + (j - 1)
             IN  A.at[(flat \div A.cols) + 1][(flat % A.cols) + 1]]]]

\* A.T
Transpose(A) ==
  [rows |-> A.cols, cols |-> A.rows,
   at |-> [i \in 1..A.cols |-> [j \in 1..A.rows |-> A.at[j][i]]]]

\* np.tile(v, (n, 1)) of a 1-D array v: n copies of v as rows, a new array
Tile(v, n) ==
  [rows |-> n, cols |-> v.len,
   at |-> [i \in 1..n |-> [j \in 1..v.len |-> v.at[j]]]]

\* A @ B raises ValueError unless A.cols = B.rows
MatMulOk(A, B) == A.cols = B.rows

\* A @ B
MatMul(A, B) ==
  [rows |-> A.rows, cols |-> B.cols,
   at |-> [i \in 1..A.rows |-> [k \in 1..B.cols |->
             SumTo([j \in 1..A.cols |-> Mul(A.at[i][j], B.at[j][k])],
                   A.cols)]]]

\* numpy broadcasting of two axis lengths: equal, or one of them is 1
BroadcastOk(d, e) == d = e \/ d = 1 \/ e = 1

\* the broadcast axis length (NOT the maximum: 0 with 1 gives 0)
BroadcastLen(d, e) == IF d = 1 THEN e ELSE d

\* A + B raises ValueError unless both axes broadcast
PlusOk(A, B) == BroadcastOk(A.rows, B.rows) /\ BroadcastOk(A.cols, B.cols)

\* A + B of two 2-D arrays, a new array
Plus(A, B) ==
  LET Ix(len, i) == IF len = 1 THEN 1 ELSE i
  IN  [rows |-> BroadcastLen(A.rows, B.rows),
       cols |-> BroadcastLen(A.cols, B.cols),
       at |-> [i \in 1..BroadcastLen(A.rows, B.rows) |->
                 [j \in 1..BroadcastLen(A.cols, B.cols) |->
                    Add(A.at[Ix(A.rows, i)][Ix(A.cols, j)],
                        B.at[Ix(B.rows, i)][Ix(B.cols, j)])]]]

\* np.vstack([A, B]) raises ValueError unless the column counts agree
VStackOk(A, B) == A.cols = B.cols

\* np.vstack([A, B]): the rows of A, then the rows of B, a new array
VStack(A, B) ==
  [rows |-> A.rows + B.rows, cols |-> A.cols,
   at |-> [i \in 1..(A.rows + B.rows) |-> [j \in 1..A.cols |->
             IF i <= A.rows THEN A.at[i][j] ELSE B.at[i - A.rows][j]]]]

\* np.zeros(n), np.ones(n)
Zeros(n) == [len |-> n, at |-> [i \in 1..n |-> 0]]
Ones(n) == [len |-> n, at |-> [i \in 1..n |-> 1]]

\* np.hstack([u, v]) of two 1-D arrays
HStack(u, v) ==
  [len |-> u.len + v.len,
   at |-> [i \in 1..(u.len + v.len) |->
             IF i <= u.len THEN u.at[i] ELSE v.at[i - u.len]]]

(* --------------------------- the generators ---------------------------- *)
\* the k-th (from 0) standard normal deviate of the stream seeded by seed
Gauss(seed, k) == (((seed + 1) * (k + 2) * 3 + k * k) % 7) - 3


\* random_state = None: the generator is seeded from the system's entropy
NoSeed == -1

\* np.random.seed(random_state); rand = np.random: the process-wide
\* generator, reseeded
RandomStateShared(seed, global) ==
  [ref |-> "global", own |-> [seed |-> seed, pos |-> 0],
   global |-> [seed |-> seed, pos |-> 0]]

\* a new generator, after np.random.seed(random_state) as well
RandomStateSeedingGlobal(seed, global) ==
  [ref |-> "own", own |-> [seed |-> seed, pos |-> 0],
   global |-> [seed |-> seed, pos |-> 0]]

\* np.random.RandomState(random_state): a new generator owned by the call,
\* at the start of the stream of its seed; np.random is not touched
RandomState(seed, global) ==
  [ref |-> "own", own |-> [seed |-> seed, pos |-> 0], global |-> global]

\* the generator the call's name rand refers to
Gen(c) == IF rand[c] = "global" THEN global_rand ELSE own[c]

\* a scalar seen as an array of one element, as broadcasting sees it
Scalar(x) == [len |-> 1, at |-> <<x>>]

\* a normal that refuses an empty size
NormalOkNonEmpty(scale, rows, cols) ==
  /\ rows > 0 /\ cols > 0
  /\ \A k \in 1..scale.len : ~Negative(scale.at[k])
  /\ BroadcastOk(scale.len, cols)

\* a normal that does not look at the sign of scale
NormalOkAnyScale(scale, rows, cols) ==
  /\ rows >= 0 /\ cols >= 0
  /\ BroadcastOk(scale.len, cols)

\* rand.normal(0, scale, (rows, cols)) raises ValueError when a dimension is
\* negative, when an element of scale is negative ("scale < 0", checked
\* whatever the size is) or when scale does not broadcast to the size
NormalOk(scale, rows, cols) ==
  /\ rows >= 0 /\ cols >= 0
  /\ \A k \in 1..scale.len : ~Negative(scale.at[k])
  /\ BroadcastOk(scale.len, cols)

\* rand.normal(0, scale, (rows, cols)) from generator state g: rows*cols
\* deviates in a row, filled row by row; entry (i, j) is 0 + scale * deviate
Normal(g, scale, rows, cols) ==
  [rows |-> rows, cols |-> cols,
   at |-> [i \in 1..rows |-> [j \in 1..cols |->
             Add(Num(0),
                 Scale(scale.at[IF scale.len = 1 THEN 1 ELSE j],
                       Gauss(g.seed, g.pos + (i - 1) * cols + (j - 1))))]]]

\* a generator that starts its stream again at every draw
AdvanceNot(g, n) == g

\* the generator after a draw of n deviates
Advance(g, n) == [g EXCEPT !.pos = g.pos + n]

(* ------------------------------ the calls ------------------------------ *)
Auto == [auto |-> TRUE, val |-> Num(0)]
Std(k) == [auto |-> FALSE, val |-> Num(k)]

\* a calibration matrix of each class, m vectors of p channels
CalibNeg(m, p) ==
  [rows |-> m, cols |-> p,
   at |-> [j \in 1..m |-> [k \in 1..p |->
             Num(IF (j + k) % 2 = 0 THEN j ELSE 0)]]]
CalibPos(m, p) ==
  [rows |-> m, cols |-> p,
   at |-> [j \in 1..m |-> [k \in 1..p |->
             Num(IF (j + k) % 2 = 1 THEN j ELSE 0)]]]

\* a mean spectrum of each class
MeanNeg(p) == [len |-> p, at |-> [k \in 1..p |-> Num(k)]]
MeanPos(p) == [len |-> p, at |-> [k \in 1..p |-> Num(5 + k)]]
Const(p, x) == [len |-> p, at |-> [k \in 1..p |-> Num(x)]]

\* a per-channel noise level
Channels(p) == [len |-> p, at |-> [k \in 1..p |-> Num(k)]]

\* what epsilon_std is: a scalar or a 1-D array
EpsScalar(k) == [scalar |-> TRUE, len |-> 1, at |-> <<Num(k)>>]
EpsArray(v) == [scalar |-> FALSE, len |-> v.len, at |-> v.at]

Args(Bn, Bp, un, up, nn, np, sn, sp, e, seed) ==
  [B_neg |-> Bn, B_pos |-> Bp, mu_neg |-> un, mu_pos |-> up,
   n_neg |-> nn, n_pos |-> np, beta_std_neg |-> sn, beta_std_pos |-> sp,
   epsilon_std |-> e, random_state |-> seed]

NoArgs ==
  Args(Empty2, Empty2, Empty1, Empty1, 0, 0, Auto, Auto, EpsScalar(0), 0)

StdArgs == {Auto} \cup {Std(k) : k \in -1..1}

\* arrays of consistent shape, every kind of count and standard deviation
ParamArgs ==
  { Args(CalibNeg(mn, p), CalibPos(mp, p), MeanNeg(p), MeanPos(p),
         nn, np, sn, sp, EpsScalar(e), seed) :
      mn \in 1..MaxM, mp \in 1..MaxM, p \in 1..MaxP,
      nn \in -1..MaxN, np \in -1..MaxN, sn \in StdArgs, sp \in StdArgs,
      e \in -1..1, seed \in 0..MaxSeed }

\* arrays of every shape, consistent or not
ShapeArgs ==
  { Args(CalibNeg(mn, pn), CalibPos(mp, pp), MeanNeg(ln), MeanPos(lp),
         nn, np, Auto, Auto, e, 0) :
      mn \in 1..MaxM, mp \in 1..MaxM, pn \in 1..MaxP, pp \in 1..MaxP,
      ln \in 1..MaxP, lp \in 1..MaxP, nn \in 0..1, np \in 0..1,
      e \in {EpsScalar(0)} \cup {EpsArray(Channels(l)) : l \in 1..MaxP} }

\* the scenario of spec section 8: one calibration vector per class,
\* [1, 0] and [0, 1], means [0, 0] and [5, 5], two samples of each class,
\* every standard deviation zero
ExampleArgs ==
  { Args(CalibNeg(1, 2), CalibPos(1, 2), Const(2, 0), Const(2, 5),
         2, 2, Std(0), Std(0), EpsScalar(0), seed) : seed \in 0..MaxSeed }

\* what concurrent and repeated calls are made with
CallArgs ==
  { Args(CalibNeg(MaxM, MaxP), CalibPos(MaxM, MaxP), MeanNeg(MaxP),
         MeanPos(MaxP), nn, 1, Auto, Std(1), EpsScalar(1), seed) :
      nn \in {1, MaxN}, seed \in {NoSeed} \cup 0..MaxSeed }

NoResult == [X_gen |-> Empty2, y_gen |-> Empty1]

\* the state in which call c has just been entered with args, and every
\* other call keeps what it has
Enter(c, args) ==
  /\ pc' = [pc EXCEPT ![c] = "L40"]
  /\ call' = [call EXCEPT ![c] = args]
  /\ B_neg' = [B_neg EXCEPT ![c] = args.B_neg]
  /\ B_pos' = [B_pos EXCEPT ![c] = args.B_pos]
  /\ mu_neg' = [mu_neg EXCEPT ![c] = args.mu_neg]
  /\ mu_pos' = [mu_pos EXCEPT ![c] = args.mu_pos]
  /\ epsilon_std' = [epsilon_std EXCEPT ![c] = args.epsilon_std]
  /\ n_neg' = [n_neg EXCEPT ![c] = args.n_neg]
  /\ n_pos' = [n_pos EXCEPT ![c] = args.n_pos]
  /\ random_state' = [random_state EXCEPT ![c] = args.random_state]
  /\ beta_std_neg' = [beta_std_neg EXCEPT ![c] = args.beta_std_neg]
  /\ beta_std_pos' = [beta_std_pos EXCEPT ![c] = args.beta_std_pos]
  /\ rand' = [rand EXCEPT ![c] = "none"]
  /\ own' = [own EXCEPT ![c] = [seed |-> 0, pos |-> 0]]
  /\ m_neg' = [m_neg EXCEPT ![c] = 0]
  /\ m_pos' = [m_pos EXCEPT ![c] = 0]
  /\ BETA_neg' = [BETA_neg EXCEPT ![c] = Empty2]
  /\ BETA_pos' = [BETA_pos EXCEPT ![c] = Empty2]
  /\ X_neg_gen' = [X_neg_gen EXCEPT ![c] = Empty2]
  /\ X_pos_gen' = [X_pos_gen EXCEPT ![c] = Empty2]
  /\ X_gen' = [X_gen EXCEPT ![c] = Empty2]
  /\ y_gen' = [y_gen EXCEPT ![c] = Empty1]
  /\ draws' = [draws EXCEPT ![c] = <<>>]
  /\ result' = [result EXCEPT ![c] = NoResult]

\* no call in progress
Idle ==
  /\ pc = [c \in Calls |-> "idle"]
  /\ call = [c \in Calls |-> NoArgs]
  /\ B_neg = [c \in Calls |-> Empty2]
  /\ B_pos = [c \in Calls |-> Empty2]
  /\ mu_neg = [c \in Calls |-> Empty1]
  /\ mu_pos = [c \in Calls |-> Empty1]
  /\ epsilon_std = [c \in Calls |-> EpsScalar(0)]
  /\ n_neg = [c \in Calls |-> 0]
  /\ n_pos = [c \in Calls |-> 0]
  /\ random_state = [c \in Calls |-> 0]
  /\ beta_std_neg = [c \in Calls |-> Auto]
  /\ beta_std_pos = [c \in Calls |-> Auto]
  /\ rand = [c \in Calls |-> "none"]
  /\ own = [c \in Calls |-> [seed |-> 0, pos |-> 0]]
  /\ global_rand = [seed |-> 0, pos |-> 0]
  /\ m_neg = [c \in Calls |-> 0]
  /\ m_pos = [c \in Calls |-> 0]
  /\ BETA_neg = [c \in Calls |-> Empty2]
  /\ BETA_pos = [c \in Calls |-> Empty2]
  /\ X_neg_gen = [c \in Calls |-> Empty2]
  /\ X_pos_gen = [c \in Calls |-> Empty2]
  /\ X_gen = [c \in Calls |-> Empty2]
  /\ y_gen = [c \in Calls |-> Empty1]
  /\ draws = [c \in Calls |-> <<>>]
  /\ result = [c \in Calls |-> NoResult]
  /\ first = [set |-> FALSE, args |-> NoArgs, result |-> NoResult]

(* ------------------------- generate_spectra ---------------------------- *)
\* the caller invokes generate_spectra as call c, with arguments among S
Call(c, S) ==
  /\ pc[c] = "idle"
  /\ \E args \in S : Enter(c, args)
  /\ UNCHANGED <<global_rand, first>>

\* the caller invokes generate_spectra again once call c is over
Again(c, S) ==
  /\ pc[c] \in {"returned", "raised"}
  /\ \E args \in S : Enter(c, args)
  /\ UNCHANGED <<global_rand, first>>

\* an exception leaves the function: nothing is returned
Raise(c) ==
  /\ pc' = [pc EXCEPT ![c] = "raised"]
  /\ result' = [result EXCEPT ![c] = NoResult]

\* line 40: rand = np.random.RandomState(random_state)
L40(c) ==
  /\ pc[c] = "L40"
  /\ \E seed \in IF random_state[c] = NoSeed THEN 0..MaxSeed
                 ELSE {random_state[c]} :
       LET made == RandomState(seed, global_rand) IN
         /\ rand' = [rand EXCEPT ![c] = made.ref]
         /\ own' = [own EXCEPT ![c] = made.own]
         /\ global_rand' = made.global
  /\ pc' = [pc EXCEPT ![c] = "L43"]
  /\ UNCHANGED <<call, argVars, stdVars, draws, locVars, result, first>>

\* `if not beta_std`: a standard deviation of 0 taken for 'auto'
ResolveFalsy(beta_std, m) ==
  IF beta_std.auto \/ beta_std.val = Num(0)
    THEN [auto |-> FALSE, val |-> InvSqrt(m)] ELSE beta_std

\* 1/m for 1/np.sqrt(m)
ResolveNoRoot(beta_std, m) ==
  IF beta_std.auto
    THEN [auto |-> FALSE, val |-> Norm([a |-> 0, c |-> 1, r |-> m * m])]
    ELSE beta_std

\* lines 47-48, 49-50: a standard deviation left 'auto' becomes
\* 1/np.sqrt(m) of the class; a number stays what it is
Resolve(beta_std, m) ==
  IF beta_std.auto THEN [auto |-> FALSE, val |-> InvSqrt(m)] ELSE beta_std

\* lines 43-50: m_neg, m_pos = the row counts; resolve 'auto'
L43(c) ==
  /\ pc[c] = "L43"
  /\ m_neg' = [m_neg EXCEPT ![c] = B_neg[c].rows]
  /\ m_pos' = [m_pos EXCEPT ![c] = B_pos[c].rows]
  /\ beta_std_neg' =
       [beta_std_neg EXCEPT ![c] = Resolve(beta_std_neg[c], B_neg[c].rows)]
  /\ beta_std_pos' =
       [beta_std_pos EXCEPT ![c] = Resolve(beta_std_pos[c], B_pos[c].rows)]
  /\ pc' = [pc EXCEPT ![c] = "L52"]
  /\ UNCHANGED <<call, argVars, genVars, BETA_neg, BETA_pos, X_neg_gen,
                 X_pos_gen, X_gen, y_gen, result, first>>

\* the generator rand refers to is advanced by n deviates, and the draw
\* (which generator, from which place of its stream, the n deviates it
\* gave) is entered in the call's record of draws
Consume(c, what, n) ==
  /\ IF rand[c] = "global"
       THEN global_rand' = Advance(global_rand, n) /\ own' = own
       ELSE own' = [own EXCEPT ![c] = Advance(own[c], n)]
            /\ global_rand' = global_rand
  /\ draws' = [draws EXCEPT ![c] =
                 Append(@, [what |-> what, n |-> n, gen |-> rand[c],
                            at |-> Gen(c).pos,
                            vals |-> [k \in 1..n |->
                                        Gauss(Gen(c).seed,
                                              Gen(c).pos + k - 1)]])]
  /\ rand' = rand

\* line 52: BETA_neg = rand.normal(0, beta_std_neg, (m_neg, n_neg)).T
L52(c) ==
  /\ pc[c] = "L52"
  /\ IF NormalOk(Scalar(beta_std_neg[c].val), m_neg[c], n_neg[c])
       THEN /\ BETA_neg' = [BETA_neg EXCEPT ![c] =
                 Transpose(Normal(Gen(c), Scalar(beta_std_neg[c].val),
                                  m_neg[c], n_neg[c]))]
            /\ Consume(c, "BETA_neg", m_neg[c] * n_neg[c])
            /\ pc' = [pc EXCEPT ![c] = "L53"]
            /\ UNCHANGED result
       ELSE /\ Raise(c)
            /\ UNCHANGED <<genVars, BETA_neg>>
  /\ UNCHANGED <<call, argVars, stdVars, m_neg, m_pos, BETA_pos, X_neg_gen,
                 X_pos_gen, X_gen, y_gen, first>>

\* line 53: BETA_pos = rand.normal(0, beta_std_pos, (m_pos, n_pos)).T
L53(c) ==
  /\ pc[c] = "L53"
  /\ IF NormalOk(Scalar(beta_std_pos[c].val), m_pos[c], n_pos[c])
       THEN /\ BETA_pos' = [BETA_pos EXCEPT ![c] =
                 Transpose(Normal(Gen(c), Scalar(beta_std_pos[c].val),
                                  m_pos[c], n_pos[c]))]
            /\ Consume(c, "BETA_pos", m_pos[c] * n_pos[c])
            /\ pc' = [pc EXCEPT ![c] = "L56"]
            /\ UNCHANGED result
       ELSE /\ Raise(c)
            /\ UNCHANGED <<genVars, BETA_pos>>
  /\ UNCHANGED <<call, argVars, stdVars, m_neg, m_pos, BETA_neg, X_neg_gen,
                 X_pos_gen, X_gen, y_gen, first>>

\* line 56: X_neg_gen = np.tile(mu_neg, (n_neg, 1)) + BETA_neg @ B_neg
L56(c) ==
  /\ pc[c] = "L56"
  /\ IF /\ MatMulOk(BETA_neg[c], B_neg[c])
        /\ PlusOk(Tile(mu_neg[c], n_neg[c]), MatMul(BETA_neg[c], B_neg[c]))
       THEN /\ X_neg_gen' = [X_neg_gen EXCEPT ![c] =
                 Plus(Tile(mu_neg[c], n_neg[c]),
                      MatMul(BETA_neg[c], B_neg[c]))]
            /\ pc' = [pc EXCEPT ![c] = "L57"]
            /\ UNCHANGED result
       ELSE /\ Raise(c)
            /\ UNCHANGED X_neg_gen
  /\ UNCHANGED <<call, argVars, stdVars, genVars, m_neg, m_pos, BETA_neg,
                 BETA_pos, X_pos_gen, X_gen, y_gen, first>>

\* line 57: X_pos_gen = np.tile(mu_pos, (n_pos, 1)) + BETA_pos @ B_pos
L57(c) ==
  /\ pc[c] = "L57"
  /\ IF /\ MatMulOk(BETA_pos[c], B_pos[c])
        /\ PlusOk(Tile(mu_pos[c], n_pos[c]), MatMul(BETA_pos[c], B_pos[c]))
       THEN /\ X_pos_gen' = [X_pos_gen EXCEPT ![c] =
                 Plus(Tile(mu_pos[c], n_pos[c]),
                      MatMul(BETA_pos[c], B_pos[c]))]
            /\ pc' = [pc EXCEPT ![c] = "L60"]
            /\ UNCHANGED result
       ELSE /\ Raise(c)
            /\ UNCHANGED X_pos_gen
  /\ UNCHANGED <<call, argVars, stdVars, genVars, m_neg, m_pos, BETA_neg,
                 BETA_pos, X_neg_gen, X_gen, y_gen, first>>

\* line 60: X_gen = np.vstack([X_neg_gen, X_pos_gen])
L60(c) ==
  /\ pc[c] = "L60"
  /\ IF VStackOk(X_neg_gen[c], X_pos_gen[c])
       THEN /\ X_gen' = [X_gen EXCEPT ![c] =
                 VStack(X_neg_gen[c], X_pos_gen[c])]
            /\ pc' = [pc EXCEPT ![c] = "L63"]
            /\ UNCHANGED result
       ELSE /\ Raise(c)
            /\ UNCHANGED X_gen
  /\ UNCHANGED <<call, argVars, stdVars, genVars, m_neg, m_pos, BETA_neg,
                 BETA_pos, X_neg_gen, X_pos_gen, y_gen, first>>

\* line 63: X_gen += rand.normal(0, epsilon_std, X_gen.shape), in place:
\* the array X_gen names is the one vstack made, and only it is written
L63(c) ==
  /\ pc[c] = "L63"
  /\ IF NormalOk(epsilon_std[c], X_gen[c].rows, X_gen[c].cols)
       THEN /\ X_gen' = [X_gen EXCEPT ![c] =
                 Plus(X_gen[c], Normal(Gen(c), epsilon_std[c],
                                       X_gen[c].rows, X_gen[c].cols))]
            /\ Consume(c, "noise", X_gen[c].rows * X_gen[c].cols)
            /\ pc' = [pc EXCEPT ![c] = "L66"]
            /\ UNCHANGED result
       ELSE /\ Raise(c)
            /\ UNCHANGED <<genVars, X_gen>>
  /\ UNCHANGED <<call, argVars, stdVars, m_neg, m_pos, BETA_neg, BETA_pos,
                 X_neg_gen, X_pos_gen, y_gen, first>>

\* the two counts exchanged
LabelsExchanged(nn, np) == HStack(Zeros(np), Ones(nn))

\* line 66: np.hstack([np.zeros(n_neg), np.ones(n_pos)])
Labels(nn, np) == HStack(Zeros(nn), Ones(np))

\* lines 66-68: y_gen = the labels; return X_gen, y_gen
L66(c) ==
  /\ pc[c] = "L66"
  /\ y_gen' = [y_gen EXCEPT ![c] = Labels(n_neg[c], n_pos[c])]
  /\ result' = [result EXCEPT ![c] =
       [X_gen |-> X_gen[c], y_gen |-> Labels(n_neg[c], n_pos[c])]]
  /\ pc' = [pc EXCEPT ![c] = "returned"]
  /\ UNCHANGED <<call, argVars, stdVars, genVars, m_neg, m_pos, BETA_neg,
                 BETA_pos, X_neg_gen, X_pos_gen, X_gen, first>>

\* the caller keeps the arguments and the result of a call that returned,
\* to compare later calls with it
Keep(c) ==
  /\ pc[c] = "returned"
  /\ ~first.set
  /\ first' = [set |-> TRUE, args |-> call[c], result |-> result[c]]
  /\ UNCHANGED <<pc, call, argVars, stdVars, genVars, locVars, result>>

Step(c) ==
  \/ L40(c) \/ L43(c) \/ L52(c) \/ L53(c) \/ L56(c) \/ L57(c)
  \/ L60(c) \/ L63(c) \/ L66(c)

Init == Idle

\* one call, with arguments of every kind
Next ==
  \/ Call("a", ParamArgs \cup ShapeArgs \cup ExampleArgs)
  \/ Step("a")

Spec == Init /\ [][Next]_vars

\* calls one after another and two at a time, on fixed arrays
NextCalls ==
  \E c \in Calls :
    \/ Call(c, CallArgs)
    \/ Again(c, CallArgs)
    \/ Step(c)
    \/ Keep(c)

SpecCalls == Init /\ [][NextCalls]_vars

(* ------------------------------ the claims ---------------------------- *)
Over(c) == pc[c] \in {"returned", "raised"}
Running(c) == pc[c] \notin {"idle", "returned", "raised"}

\* B_neg is m_neg x p, B_pos is m_pos x p, the means have length p
Consistent(args) ==
  /\ args.B_neg.rows >= 1 /\ args.B_pos.rows >= 1
  /\ args.B_neg.cols = args.B_pos.cols
  /\ args.mu_neg.len = args.B_neg.cols
  /\ args.mu_pos.len = args.B_pos.cols

NonNegative(beta_std) == beta_std.auto \/ ~Negative(beta_std.val)

AnyNegative(v) == \E k \in 1..v.len : Negative(v.at[k])

\* no standard deviation is negative, and epsilon_std is a scalar or has
\* one value or one value per channel
ValidStd(args) ==
  /\ NonNegative(args.beta_std_neg) /\ NonNegative(args.beta_std_pos)
  /\ ~AnyNegative(args.epsilon_std)
  /\ args.epsilon_std.len \in {1, args.B_neg.cols}

\* the shape of what a call returned
ShapeOf(c) ==
  /\ result[c].X_gen.rows = call[c].n_neg + call[c].n_pos
  /\ result[c].X_gen.cols = call[c].B_neg.cols
  /\ DOMAIN result[c].X_gen.at = 1..(call[c].n_neg + call[c].n_pos)
  /\ \A i \in DOMAIN result[c].X_gen.at :
       DOMAIN result[c].X_gen.at[i] = 1..call[c].B_neg.cols
  /\ result[c].y_gen.len = call[c].n_neg + call[c].n_pos
  /\ DOMAIN result[c].y_gen.at = 1..(call[c].n_neg + call[c].n_pos)

\* C1: a call with n_neg >= 0 and n_pos >= 0 that returns, returns
\* n_neg + n_pos labels, 0 at the first n_neg places and 1 at the others,
\* and the rows of X_gen are the n_neg rows of the negative block followed
\* by the n_pos rows of the positive block.
C1_LabelOrder ==
  \A c \in Calls :
    (pc[c] = "returned" /\ call[c].n_neg >= 0 /\ call[c].n_pos >= 0) =>
      /\ result[c].y_gen.len = call[c].n_neg + call[c].n_pos
      /\ DOMAIN result[c].y_gen.at = 1..(call[c].n_neg + call[c].n_pos)
      /\ \A i \in 1..result[c].y_gen.len :
           result[c].y_gen.at[i] = IF i <= call[c].n_neg THEN 0 ELSE 1
      /\ X_neg_gen[c].rows = call[c].n_neg
      /\ X_pos_gen[c].rows = call[c].n_pos
      /\ result[c].X_gen.rows = result[c].y_gen.len

C1_Witness ==
  /\ pc["a"] = "returned"
  /\ call["a"].n_neg = 2 /\ call["a"].n_pos = 1
  /\ result["a"].y_gen.at = <<0, 0, 1>>

\* the arguments of C2 as stated: consistent arrays and counts >= 0
C2_Pre(c) ==
  Consistent(call[c]) /\ call[c].n_neg >= 0 /\ call[c].n_pos >= 0

\* C2 as stated: a call with consistent arrays and n_neg, n_pos >= 0 does
\* not raise, and what it returns has n_neg + n_pos rows, p columns and
\* n_neg + n_pos labels.
C2_AsStated ==
  \A c \in Calls :
    C2_Pre(c) => (pc[c] # "raised" /\ (pc[c] = "returned" => ShapeOf(c)))

\* C2, amended: a call with consistent arrays, n_neg, n_pos >= 0, no
\* negative standard deviation and an epsilon_std that is a scalar or has
\* 1 or p elements does not raise, and what it returns is an X_gen of
\* n_neg + n_pos rows and p columns and n_neg + n_pos labels.
C2_Shape ==
  \A c \in Calls :
    (C2_Pre(c) /\ ValidStd(call[c])) =>
      (pc[c] # "raised" /\ (pc[c] = "returned" => ShapeOf(c)))

C2_Witness ==
  /\ pc["a"] = "returned"
  /\ Consistent(call["a"]) /\ ValidStd(call["a"])
  /\ call["a"].n_neg = 0 /\ call["a"].n_pos = 0
  /\ call["a"].B_neg.cols = 2
  /\ result["a"].X_gen.rows = 0 /\ result["a"].X_gen.cols = 2

\* C3: two calls with the same arguments and the same integer random_state
\* return the same X_gen and the same y_gen: a call that returns agrees
\* with the call the caller kept (made earlier, or at the same time, with
\* any other calls before and between them), and two calls in progress at
\* once agree with each other.
C3_Determinism ==
  /\ \A c \in Calls :
       (/\ first.set /\ pc[c] = "returned" /\ call[c] = first.args
        /\ call[c].random_state # NoSeed) => result[c] = first.result
  /\ \A c, d \in Calls :
       (/\ pc[c] = "returned" /\ pc[d] = "returned" /\ call[c] = call[d]
        /\ call[c].random_state # NoSeed) => result[c] = result[d]

\* a call has returned what the kept call returned while the other call,
\* with another seed, is between its draws
C3_Witness ==
  /\ first.set /\ pc["a"] = "returned" /\ call["a"] = first.args
  /\ call["a"].random_state = 1 /\ result["a"] = first.result
  /\ result["a"].X_gen.rows = 3
  /\ pc["b"] = "L53" /\ call["b"].random_state = 0

\* every element of v is zero
AllZero(v) == \A k \in 1..v.len : v.at[k] = Num(0)

\* C4: when beta_std_neg = 0, beta_std_pos = 0 and epsilon_std = 0 and the
\* arrays are consistent, each of the first n_neg rows of the X_gen
\* returned is mu_neg and each of the other n_pos rows is mu_pos, for
\* every seed.
C4_ZeroVariance ==
  \A c \in Calls :
    (/\ pc[c] = "returned" /\ Consistent(call[c])
     /\ call[c].beta_std_neg = Std(0) /\ call[c].beta_std_pos = Std(0)
     /\ AllZero(call[c].epsilon_std)) =>
      /\ result[c].X_gen.rows = call[c].n_neg + call[c].n_pos
      /\ \A i \in 1..result[c].X_gen.rows :
           result[c].X_gen.at[i] =
             IF i <= call[c].n_neg THEN call[c].mu_neg.at
             ELSE call[c].mu_pos.at

\* the scenario of spec section 8 and its expected result
C4_Witness ==
  /\ pc["a"] = "returned" /\ call["a"] \in ExampleArgs
  /\ call["a"].random_state = 1
  /\ result["a"].X_gen.at =
       << <<Num(0), Num(0)>>, <<Num(0), Num(0)>>,
          <<Num(5), Num(5)>>, <<Num(5), Num(5)>> >>
  /\ result["a"].y_gen.at = <<0, 0, 1, 1>>

\* the column count of B_neg differs from the length of mu_neg, or that of
\* B_pos from the length of mu_pos, or the two column counts differ
Mismatch(args) ==
  \/ args.B_neg.cols # args.mu_neg.len
  \/ args.B_pos.cols # args.mu_pos.len
  \/ args.B_neg.cols # args.B_pos.cols

\* C5: a call whose arrays disagree in their dimensions (for any lengths,
\* a mean of length 1 included, and any n_neg, n_pos >= 0) ends in an
\* error and returns nothing.
C5_MismatchRejected ==
  \A c \in Calls :
    (Mismatch(call[c]) /\ call[c].n_neg >= 0 /\ call[c].n_pos >= 0) =>
      pc[c] # "returned"

\* n_neg or n_pos is negative, or a standard deviation is
InvalidParams(args) ==
  \/ args.n_neg < 0 \/ args.n_pos < 0
  \/ ~NonNegative(args.beta_std_neg) \/ ~NonNegative(args.beta_std_pos)
  \/ AnyNegative(args.epsilon_std)

\* C6: a call with a negative n_neg or n_pos, or a negative beta_std_neg,
\* beta_std_pos or epsilon_std (also when the sample count of that class
\* is 0), never returns: it gets as far as a draw, which raises, and
\* nothing is returned.
C6_InvalidRejected ==
  \A c \in Calls :
    InvalidParams(call[c]) =>
      /\ pc[c] \in {"L40", "L43", "L52", "L53", "L56", "L57", "L60", "L63",
                    "raised"}
      /\ pc[c] = "raised" => result[c] = NoResult
      /\ (call[c].n_neg < 0 \/ ~NonNegative(call[c].beta_std_neg)) =>
           pc[c] \in {"L40", "L43", "L52", "raised"}
      /\ (call[c].n_pos < 0 \/ ~NonNegative(call[c].beta_std_pos)) =>
           pc[c] \in {"L40", "L43", "L52", "L53", "raised"}

\* a negative standard deviation of a class of which no sample is asked
C6_Witness ==
  /\ pc["a"] = "raised" /\ result["a"] = NoResult
  /\ call["a"].n_neg = 2 /\ call["a"].beta_std_neg = Std(1)
  /\ call["a"].n_pos = 0 /\ call["a"].beta_std_pos = Std(-1)
  /\ Len(draws["a"]) = 1

\* the call returned although a mean of length 1 met two channels
C5_Reached ==
  /\ pc["a"] = "returned"
  /\ call["a"].B_neg.cols = 2 /\ call["a"].mu_neg.len = 1
  /\ call["a"].B_pos.cols = 2 /\ call["a"].mu_pos.len = 2
  /\ call["a"].n_neg = 1 /\ call["a"].n_pos = 1
  /\ result["a"].X_gen.rows = 2 /\ result["a"].X_gen.cols = 2

\* x is s with s >= 0 and s*s*m = 1
IsInvSqrt(x, m) ==
  \/ x.c = 0 /\ x.a > 0 /\ x.a * x.a * m = 1
  \/ x.a = 0 /\ x.c > 0 /\ x.c * x.c * m = x.r

\* the standard deviation a class's draw uses, given what the caller
\* passed (given), the class's calibration matrix B and the value of
\* the parameter at the draw (used)
StdAsClaimed(given, B, used) ==
  /\ ~used.auto
  /\ given.auto => IsInvSqrt(used.val, B.rows)
  /\ ~given.auto => used = given

\* C7: from the resolution on, and so at both coefficient draws,
\* beta_std_neg is 1/sqrt(m_neg) when the caller left it 'auto', m_neg the
\* row count of B_neg, and the caller's number otherwise; likewise
\* beta_std_pos with the row count of B_pos, whatever the other class's
\* setting is.
C7_AutoStd ==
  \A c \in Calls :
    pc[c] \in {"L52", "L53", "L56", "L57", "L60", "L63", "L66", "returned"}
      => /\ StdAsClaimed(call[c].beta_std_neg, call[c].B_neg,
                         beta_std_neg[c])
         /\ StdAsClaimed(call[c].beta_std_pos, call[c].B_pos,
                         beta_std_pos[c])
         /\ m_neg[c] = call[c].B_neg.rows /\ m_pos[c] = call[c].B_pos.rows

\* 'auto' for the negative class of two calibration vectors, a number for
\* the positive class of one
C7_Witness ==
  /\ pc["a"] = "L53"
  /\ call["a"].beta_std_neg.auto /\ call["a"].B_neg.rows = 2
  /\ beta_std_neg["a"].val = [a |-> 0, c |-> 1, r |-> 2]
  /\ call["a"].beta_std_pos = Std(1) /\ call["a"].B_pos.rows = 1
  /\ beta_std_pos["a"] = Std(1)

\* C8: a call, whether it returns or raises, leaves B_neg, B_pos, mu_neg,
\* mu_pos and epsilon_std as the caller passed them, leaves the
\* process-wide generator where it was, and draws only from the generator
\* it created.
C8_NoSideEffects ==
  /\ global_rand = [seed |-> 0, pos |-> 0]
  /\ \A c \in Calls :
       /\ B_neg[c] = call[c].B_neg /\ B_pos[c] = call[c].B_pos
       /\ mu_neg[c] = call[c].mu_neg /\ mu_pos[c] = call[c].mu_pos
       /\ epsilon_std[c] = call[c].epsilon_std
       /\ rand[c] \in {"none", "own"}
       /\ \A k \in 1..Len(draws[c]) : draws[c][k].gen = "own"

\* a call that added noise per channel in place and returned
C8_Witness ==
  /\ pc["a"] = "returned"
  /\ ~call["a"].epsilon_std.scalar /\ call["a"].epsilon_std.len = 3
  /\ call["a"].n_neg = 1 /\ call["a"].n_pos = 1
  /\ own["a"].pos = 8
  /\ global_rand.pos = 0

\* the draws of a call, as far as it got: what, how many, from where
DrawPlan(c) ==
  << [what |-> "BETA_neg", n |-> m_neg[c] * n_neg[c], at |-> 0],
     [what |-> "BETA_pos", n |-> m_pos[c] * n_pos[c],
      at |-> m_neg[c] * n_neg[c]],
     [what |-> "noise", n |-> (n_neg[c] + n_pos[c]) * X_gen[c].cols,
      at |-> m_neg[c] * n_neg[c] + m_pos[c] * n_pos[c]] >>

\* the number of draws a call has made when it is at a statement
DrawsMadeAt(c) ==
  CASE pc[c] \in {"idle", "L40", "L43", "L52"} -> {0}
    [] pc[c] \in {"L53"} -> {1}
    [] pc[c] \in {"L56", "L57", "L60", "L63"} -> {2}
    [] pc[c] \in {"L66", "returned"} -> {3}
    [] pc[c] = "raised" -> {0, 1, 2}

\* C9: every draw of a call is made from the one generator created from
\* random_state, in this order and from consecutive places of its stream:
\* m_neg*n_neg coefficients of the negative class, then m_pos*n_pos of the
\* positive class, then (n_neg+n_pos)*p noise values (p the column count
\* of X_gen, which is that of B_neg for consistent arrays); the noise is
\* drawn whatever epsilon_std is, and nothing is drawn before 'auto' is
\* resolved.
C9_DrawOrder ==
  \A c \in Calls :
    /\ Len(draws[c]) \in DrawsMadeAt(c)
    /\ \A k \in 1..Len(draws[c]) :
         /\ draws[c][k].what = DrawPlan(c)[k].what
         /\ draws[c][k].n = DrawPlan(c)[k].n
         /\ draws[c][k].at = DrawPlan(c)[k].at
         /\ draws[c][k].gen = "own"
         /\ own[c].seed = call[c].random_state
         /\ draws[c][k].vals =
              [i \in 1..draws[c][k].n |->
                 Gauss(call[c].random_state, draws[c][k].at + i - 1)]
    /\ Len(draws[c]) > 0 =>
         (~beta_std_neg[c].auto /\ ~beta_std_pos[c].auto)
    /\ own[c].pos = IF Len(draws[c]) = 0 THEN 0
                    ELSE draws[c][Len(draws[c])].at
                           + draws[c][Len(draws[c])].n
    /\ (Len(draws[c]) = 3 /\ Consistent(call[c])) =>
         draws[c][3].n = (n_neg[c] + n_pos[c]) * call[c].B_neg.cols

\* the three draws of a call with epsilon_std = 0
C9_Witness ==
  /\ pc["a"] = "returned" /\ AllZero(call["a"].epsilon_std)
  /\ Len(draws["a"]) = 3
  /\ draws["a"][1].n = 4 /\ draws["a"][2].n = 2 /\ draws["a"][3].n = 9
  /\ draws["a"][3].at = 6

\* the standard deviation of a class as a number: the caller's, or
\* 1/sqrt(m) for 'auto'
StdOf(given, B) == IF given.auto THEN InvSqrt(B.rows) ELSE given.val

\* mu[k] + sum over j of s * vals[(j-1)*n + i] * B[j][k] + e[k] * noise,
\* the entry of channel k of sample i of a class of n samples, vals being
\* the deviates drawn for the class and noise the deviate drawn for the
\* entry
Entry(mu, B, s, vals, n, i, k, e, noise) ==
  LET T == [j \in 1..B.rows |->
              Mul(Scale(s, vals[(j - 1) * n + i]), B.at[j][k])]
  IN  Add(Add(mu.at[k], SumTo(T, B.rows)), Scale(e, noise))

\* C10: for consistent arrays, row i of the negative block of the X_gen
\* returned is mu_neg + sum_j beta_neg[i][j] * B_neg[j] + noise[i] and row
\* n_neg + i is mu_pos + sum_j beta_pos[i][j] * B_pos[j] + noise[n_neg + i],
\* beta_class[i][j] being the standard deviation of the class times the
\* (j*n_class + i)-th deviate (from 0) drawn for the class, and noise[r][k]
\* epsilon_std times the (r*p + k)-th deviate of the noise draw.
C10_GenerativeModel ==
  \A c \in Calls :
    (pc[c] = "returned" /\ Consistent(call[c])) =>
      LET a == call[c]
          p == a.B_neg.cols
          X == result[c].X_gen
          e(k) == a.epsilon_std.at[IF a.epsilon_std.len = 1 THEN 1 ELSE k]
      IN  /\ X.rows = a.n_neg + a.n_pos /\ X.cols = p
          /\ \A i \in 1..a.n_neg : \A k \in 1..p :
               X.at[i][k] =
                 Entry(a.mu_neg, a.B_neg, StdOf(a.beta_std_neg, a.B_neg),
                       draws[c][1].vals, a.n_neg, i, k, e(k),
                       draws[c][3].vals[(i - 1) * p + k])
          /\ \A i \in 1..a.n_pos : \A k \in 1..p :
               X.at[a.n_neg + i][k] =
                 Entry(a.mu_pos, a.B_pos, StdOf(a.beta_std_pos, a.B_pos),
                       draws[c][2].vals, a.n_pos, i, k, e(k),
                       draws[c][3].vals[(a.n_neg + i - 1) * p + k])

\* two samples of each class from two calibration vectors each, 'auto' and
\* a number, with noise
C10_Witness ==
  /\ pc["a"] = "returned" /\ Consistent(call["a"])
  /\ call["a"].n_neg = 2 /\ call["a"].n_pos = 2
  /\ call["a"].B_neg.rows = 2 /\ call["a"].B_pos.rows = 2
  /\ call["a"].B_neg.cols = 3
  /\ call["a"].beta_std_neg.auto /\ call["a"].beta_std_pos = Std(1)
  /\ call["a"].epsilon_std = EpsScalar(1)
  /\ draws["a"][1].vals[2] # draws["a"][1].vals[3]

=============================================================================
